---- MODULE Spec2Model ----
(***************************************************************************)
(* NodeWeightCache (package v3): a resource event handler that keeps a     *)
(* table node name -> weight, resolved from an annotation of the node, and *)
(* forwards every event to the Next handler.                               *)
(*                                                                         *)
(* Strings whose characters the code inspects (annotation values, which    *)
(* go through strconv.ParseUint) are sequences of one-character strings.   *)
(* A Go map is a function whose domain is the set of keys present; a read  *)
(* of a missing key yields the zero value (MapGet).                        *)
(***************************************************************************)
EXTENDS Integers, Sequences, FiniteSets, TLC

VARIABLES
    DefaultNodeWeight,  \* c.DefaultNodeWeight, set by NewNodeWeightCache
    nextHandler,        \* c.Next # nil
    nodeWeights,        \* c.nodeWeights
    lastCall,           \* the handler call delivered last, with its arguments
    nextCalls,          \* the calls that call made on c.Next, in order
    got,                \* the last GetWeightOfNode made since lastCall
    mu,                 \* c.mu: "free", or the goroutine holding it
    stack,              \* the event goroutine's frames: [op, args, pc]
    readers,            \* the goroutines calling GetWeightOfNode
    crashed,            \* the runtime ended the process (fatal error)
    refMap,             \* the abstract map of the reference model
    lbResult            \* the last endpoint builder call and what it returned

cacheVars == <<DefaultNodeWeight, nextHandler, nodeWeights, lastCall, nextCalls, got>>
threadVars == <<mu, stack, readers, crashed>>
otherVars == <<refMap, lbResult>>
vars == <<cacheVars, threadVars, otherVars>>

----------------------------------------------------------------------------
(* Bounds of the model *)

\* deepest nesting of DeletedFinalStateUnknown wrappers delivered to OnDelete
MaxWrap == 2
MaxAddrs == 3
MaxReentry == 1

\* goroutines calling GetWeightOfNode beside the event goroutine
NumReaders == 1

----------------------------------------------------------------------------
(* Program constants *)

\* normalizeWeight: weights above this collapse to the default
MaxWeight == 128

\* strconv.ParseUint(s, 10, 32): the largest value is 2^32 - 1 = 4294967295,
\* written as quotient and remainder by the base, as ParseUint's cutoff test
\* does (2^32 - 1 itself exceeds the 32-bit signed integers of the model)
ParseBase == 10
MaxUint32Quot == 429496729
MaxUint32Rem == 5

\* the annotation key the cache is configured with (the tests' key)
NodeWeightAnnotation == "weight-annotation"
OtherAnnotation == "not a weight-annotation"

----------------------------------------------------------------------------
(* strconv.ParseUint(s, 10, 32) *)

Digits == {"0", "1", "2", "3", "4", "5", "6", "7", "8", "9"}

DigitValue(ch) ==
    CASE ch = "0" -> 0 [] ch = "1" -> 1 [] ch = "2" -> 2 [] ch = "3" -> 3
      [] ch = "4" -> 4 [] ch = "5" -> 5 [] ch = "6" -> 6 [] ch = "7" -> 7
      [] ch = "8" -> 8 [] ch = "9" -> 9

\* The digit loop of ParseUint from position i with accumulator n: a
\* character that is no digit is a syntax error, a value above 2^32 - 1 a
\* range error (the caller drops the value returned with an error).
RECURSIVE ParseDigits(_, _, _)
ParseDigits(s, i, n) ==
    IF i > Len(s) THEN [err |-> "nil", n |-> n]
    ELSE IF s[i] \notin Digits THEN [err |-> "ErrSyntax", n |-> 0]
    ELSE LET d == DigitValue(s[i]) IN
         IF n > MaxUint32Quot \/ (n = MaxUint32Quot /\ d > MaxUint32Rem)
         THEN [err |-> "ErrRange", n |-> 0]
         ELSE ParseDigits(s, i + 1, n * ParseBase + d)

ParseUint(s) ==
    IF Len(s) = 0 THEN [err |-> "ErrSyntax", n |-> 0]
    ELSE ParseDigits(s, 1, 0)

----------------------------------------------------------------------------
(* Weight resolution *)

normalizeWeight_NoClamp(weight, defaultWeight) == weight

normalizeWeight_OffByOne(weight, defaultWeight) ==
    IF weight >= MaxWeight THEN defaultWeight ELSE weight

normalizeWeight(weight, defaultWeight) ==
    IF weight > MaxWeight THEN defaultWeight ELSE weight

resolveNodeWeight(meta, annotationName, defaultValue) ==
    LET weight ==
            IF annotationName \in DOMAIN meta.Annotations
            THEN LET r == ParseUint(meta.Annotations[annotationName])
                 IN  IF r.err = "nil" THEN r.n ELSE defaultValue
            ELSE defaultValue
    IN  normalizeWeight(weight, defaultValue)

----------------------------------------------------------------------------
(* Go map operations on the weight table *)

EmptyMap == [k \in {} |-> 0]

MapGet(m, k) == IF k \in DOMAIN m THEN m[k] ELSE 0

MapPut(m, k, v) == [x \in DOMAIN m \cup {k} |-> IF x = k THEN v ELSE m[x]]

MapDelete(m, k) == [x \in DOMAIN m \ {k} |-> m[x]]

----------------------------------------------------------------------------
(* Event payloads: a v1.Node, another resource type (a v1.Endpoints), and  *)
(* a cache.DeletedFinalStateUnknown wrapping a payload                     *)

Node(name, annotations, status) ==
    [kind |-> "Node",
     ObjectMeta |-> [Name |-> name, Annotations |-> annotations],
     Status |-> status]

Endpoints(name, annotations) ==
    [kind |-> "Endpoints",
     ObjectMeta |-> [Name |-> name, Annotations |-> annotations]]

DeletedFinalStateUnknown(key, obj) ==
    [kind |-> "DeletedFinalStateUnknown", Key |-> key, Obj |-> obj]

\* cmp.Equal(x, y, cmpopts.IgnoreFields(v1.Node{}, "Status")): values of
\* different types are never equal; a Node's Status is left out
cmpEqualIgnoreStatus(x, y) ==
    IF x.kind # y.kind THEN FALSE
    ELSE IF x.kind = "Node" THEN x.ObjectMeta = y.ObjectMeta
    ELSE x = y

----------------------------------------------------------------------------
(* The cache's methods. c is the cache: [nodeWeights, calls], calls being   *)
(* the calls made on c.Next so far.                                         *)

GetWeightOfNode_NoZeroCheck(c, nodeName) == MapGet(c.nodeWeights, nodeName)

GetWeightOfNode(c, nodeName) ==
    LET nodeWeight == MapGet(c.nodeWeights, nodeName)
    IN  IF nodeWeight = 0 THEN DefaultNodeWeight ELSE nodeWeight

\* insert-only: an entry already present is kept
updateNodeWeight_KeepExisting(c, node) ==
    LET weight == resolveNodeWeight(node.ObjectMeta, NodeWeightAnnotation,
                                    DefaultNodeWeight)
    IN  IF node.ObjectMeta.Name \in DOMAIN c.nodeWeights
        THEN c
        ELSE [c EXCEPT !.nodeWeights = MapPut(@, node.ObjectMeta.Name, weight)]

\* adds the resolved weight to the stored one instead of replacing it
updateNodeWeight_Accumulate(c, node) ==
    LET weight == resolveNodeWeight(node.ObjectMeta, NodeWeightAnnotation,
                                    DefaultNodeWeight)
        previousWeight == MapGet(c.nodeWeights, node.ObjectMeta.Name)
    IN  [c EXCEPT !.nodeWeights =
            MapPut(@, node.ObjectMeta.Name, previousWeight + weight)]

updateNodeWeight(c, node) ==
    LET weight == resolveNodeWeight(node.ObjectMeta, NodeWeightAnnotation,
                                    DefaultNodeWeight)
        previousWeight == MapGet(c.nodeWeights, node.ObjectMeta.Name)
        changed == previousWeight # weight
    IN  IF changed
        THEN [c EXCEPT !.nodeWeights = MapPut(@, node.ObjectMeta.Name, weight)]
        ELSE c

deleteNodeWeight_Keep(c, node) == c

\* drops the whole table
deleteNodeWeight_All(c, node) == [c EXCEPT !.nodeWeights = EmptyMap]

deleteNodeWeight(c, node) ==
    [c EXCEPT !.nodeWeights = MapDelete(@, node.ObjectMeta.Name)]

\* if c.Next != nil { c.Next.<op>(args) }
Forward(c, op, args) ==
    IF nextHandler
    THEN [c EXCEPT !.calls = Append(@, [op |-> op, args |-> args])]
    ELSE c

\* no type switch: whatever carries a name and annotations is cached
OnAdd_AnyType(c, obj) == Forward(updateNodeWeight(c, obj), "OnAdd", <<obj>>)

OnAdd(c, obj) ==
    LET c1 == IF obj.kind = "Node" THEN updateNodeWeight(c, obj) ELSE c
    IN  Forward(c1, "OnAdd", <<obj>>)

OnUpdate_AlwaysWrite(c, oldObj, newObj) ==
    LET c1 == IF newObj.kind = "Node" THEN updateNodeWeight(c, newObj) ELSE c
    IN  Forward(c1, "OnUpdate", <<oldObj, newObj>>)

\* updates only when old and new are both nodes
OnUpdate_SameTypeOnly(c, oldObj, newObj) ==
    LET c1 == IF newObj.kind = "Node" /\ oldObj.kind = "Node"
                 /\ ~cmpEqualIgnoreStatus(oldObj, newObj)
              THEN updateNodeWeight(c, newObj)
              ELSE c
    IN  Forward(c1, "OnUpdate", <<oldObj, newObj>>)

OnUpdate(c, oldObj, newObj) ==
    LET c1 == IF newObj.kind = "Node"
              THEN IF ~cmpEqualIgnoreStatus(oldObj, newObj)
                   THEN updateNodeWeight(c, newObj)
                   ELSE c
              ELSE c
    IN  Forward(c1, "OnUpdate", <<oldObj, newObj>>)

OnDelete_NoUnwrap(c, obj) ==
    LET c1 == IF obj.kind = "Node" THEN deleteNodeWeight(c, obj) ELSE c
    IN  Forward(c1, "OnDelete", <<obj>>)

RECURSIVE OnDelete(_, _)
OnDelete(c, obj) ==
    LET c1 == CASE obj.kind = "Node" -> deleteNodeWeight(c, obj)
                [] obj.kind = "DeletedFinalStateUnknown" -> OnDelete(c, obj.Obj)
                [] OTHER -> c
    IN  Forward(c1, "OnDelete", <<obj>>)

----------------------------------------------------------------------------
(* Inputs *)

NodeNames == {"node1", "node2"}

DefaultWeights == {0, 1, 200}

AnnotationValues ==
    { <<"0">>, <<"5">>, <<"1", "2", "8">>, <<"1", "2", "9">>,
      <<"4", "2", "9", "4", "9", "6", "7", "2", "9", "6">>,
      <<"-", "5">>, <<>> }

\* the annotations of a payload: the configured key with each value, or
\* another key only (the configured key absent)
AnnotationMaps ==
    {OtherAnnotation :> <<"5">>}
        \cup {NodeWeightAnnotation :> v : v \in AnnotationValues}

Statuses == {"Ready", "NotReady"}

Nodes == {Node(n, a, s) : n \in NodeNames, a \in AnnotationMaps, s \in Statuses}

OtherObjects == {Endpoints(n, NodeWeightAnnotation :> <<"5">>) : n \in NodeNames}

Objects == Nodes \cup OtherObjects

\* the old objects of an update: the other type, and nodes with the key
\* absent, zero and non-zero
OldAnnotationMaps ==
    {OtherAnnotation :> <<"5">>, NodeWeightAnnotation :> <<"0">>,
     NodeWeightAnnotation :> <<"5">>}

OldObjects ==
    {Node(n, a, "Ready") : n \in NodeNames, a \in OldAnnotationMaps} \cup OtherObjects

\* the key of a tombstone: the name of the object it stands for
KeyOf(obj) ==
    IF obj.kind = "DeletedFinalStateUnknown" THEN obj.Key ELSE obj.ObjectMeta.Name

\* the objects under exactly depth wrappers
RECURSIVE Wrapped(_)
Wrapped(depth) ==
    IF depth = 0 THEN Objects
    ELSE {DeletedFinalStateUnknown(KeyOf(w), w) : w \in Wrapped(depth - 1)}

DeleteObjects == UNION {Wrapped(depth) : depth \in 0..MaxWrap}

----------------------------------------------------------------------------
(* The state machine: the event source delivers one event at a time; the    *)
(* observer records the call and what reached c.Next, and is renewed       *)
(* before the next event is delivered.                                      *)

NoCall == [op |-> "none", args |-> <<>>]
NoGot == [called |-> FALSE, nodeName |-> "", weight |-> 0]

Cache == [nodeWeights |-> nodeWeights, calls |-> <<>>]

Readers == 1..NumReaders
IdleReader == [pc |-> "idle", nodeName |-> "", old |-> 0, raced |-> FALSE,
               fatal |-> FALSE, ret |-> 0]

NoResult == [fn |-> "none", weight |-> 0, addrs |-> <<>>, result |-> <<>>]

(* The reference model: an abstract map from node name to weight, stepped  *)
(* by every delivered event                                                *)

\* the weight a node snapshot carries, or the default
RefWeight(node) ==
    LET annotations == node.ObjectMeta.Annotations IN
    IF NodeWeightAnnotation \notin DOMAIN annotations THEN DefaultNodeWeight
    ELSE LET parsed == ParseUint(annotations[NodeWeightAnnotation]) IN
         IF parsed.err # "nil" \/ parsed.n > MaxWeight THEN DefaultNodeWeight
         ELSE parsed.n

\* the node under any number of final-state-unknown wrappers
RECURSIVE RefUnwrap(_)
RefUnwrap(obj) ==
    IF obj.kind = "DeletedFinalStateUnknown" THEN RefUnwrap(obj.Obj) ELSE obj

RefUpsert(map, node) ==
    [n \in DOMAIN map \cup {node.ObjectMeta.Name} |->
        IF n = node.ObjectMeta.Name THEN RefWeight(node) ELSE map[n]]

RefRemove(map, node) ==
    [n \in DOMAIN map \ {node.ObjectMeta.Name} |-> map[n]]

\* two snapshots are equivalent when they are nodes differing at most in Status
RefEquivalent(old, new) ==
    /\ old.kind = "Node" /\ new.kind = "Node"
    /\ old.ObjectMeta = new.ObjectMeta

\* unconditional upsert on add and on non-equivalent update, removal on delete
RefStep(map, op, args) ==
    CASE op = "OnAdd" ->
            IF args[1].kind = "Node" THEN RefUpsert(map, args[1]) ELSE map
      [] op = "OnUpdate" ->
            IF args[2].kind = "Node" /\ ~RefEquivalent(args[1], args[2])
            THEN RefUpsert(map, args[2]) ELSE map
      [] op = "OnDelete" ->
            IF RefUnwrap(args[1]).kind = "Node"
            THEN RefRemove(map, RefUnwrap(args[1])) ELSE map

\* default on absent or zero
RefLookup(map, n) ==
    IF n \notin DOMAIN map \/ map[n] = 0 THEN DefaultNodeWeight ELSE map[n]

Init ==
    /\ DefaultNodeWeight \in DefaultWeights
    /\ nextHandler \in BOOLEAN
    /\ nodeWeights = EmptyMap
    /\ lastCall = NoCall
    /\ nextCalls = <<>>
    /\ got = NoGot
    /\ mu = "free"
    /\ stack = <<>>
    /\ readers = [r \in Readers |-> IdleReader]
    /\ crashed = FALSE
    /\ refMap = EmptyMap
    /\ lbResult = NoResult

Deliver(op, args, c) ==
    /\ lastCall = NoCall
    /\ lastCall' = [op |-> op, args |-> args]
    /\ nodeWeights' = c.nodeWeights
    /\ nextCalls' = c.calls
    /\ got' = NoGot
    /\ refMap' = RefStep(refMap, op, args)
    /\ UNCHANGED <<DefaultNodeWeight, nextHandler, threadVars, lbResult>>

EventOnAdd ==
    \E obj \in Objects : Deliver("OnAdd", <<obj>>, OnAdd(Cache, obj))

EventOnUpdate ==
    \E oldObj \in OldObjects, newObj \in Objects :
        Deliver("OnUpdate", <<oldObj, newObj>>, OnUpdate(Cache, oldObj, newObj))

EventOnDelete ==
    \E obj \in DeleteObjects : Deliver("OnDelete", <<obj>>, OnDelete(Cache, obj))

CallGetWeightOfNode ==
    \E nodeName \in NodeNames :
        /\ got' = [called |-> TRUE, nodeName |-> nodeName,
                   weight |-> GetWeightOfNode(Cache, nodeName)]
        /\ UNCHANGED <<DefaultNodeWeight, nextHandler, nodeWeights, lastCall, nextCalls>>
        /\ UNCHANGED <<threadVars, otherVars>>

NewTestEventHandler ==
    /\ lastCall # NoCall
    /\ lastCall' = NoCall
    /\ nextCalls' = <<>>
    /\ got' = NoGot
    /\ UNCHANGED <<DefaultNodeWeight, nextHandler, nodeWeights, threadVars, otherVars>>

Next ==
    \/ EventOnAdd
    \/ EventOnUpdate
    \/ EventOnDelete
    \/ CallGetWeightOfNode
    \/ NewTestEventHandler

Spec == Init /\ [][Next]_vars

----------------------------------------------------------------------------
(* The goroutines. The event source calls the handlers from one goroutine,  *)
(* a statement at a time; GetWeightOfNode is called from other goroutines   *)
(* at any moment. A frame's pc is the statement it is about to execute.     *)

ConcDefaultWeights == {1}

ConcObjects ==
    {Node(n, NodeWeightAnnotation :> <<"5">>, "Ready") : n \in NodeNames}
        \cup {Node("node1", NodeWeightAnnotation :> <<"0">>, "Ready"),
              Endpoints("node1", NodeWeightAnnotation :> <<"5">>)}

ConcOldObjects ==
    {Node("node1", NodeWeightAnnotation :> <<"5">>, "Ready"),
     Endpoints("node1", NodeWeightAnnotation :> <<"5">>)}

RECURSIVE ConcWrapped(_)
ConcWrapped(depth) ==
    IF depth = 0 THEN ConcObjects
    ELSE {DeletedFinalStateUnknown(KeyOf(w), w) : w \in ConcWrapped(depth - 1)}

ConcDeleteObjects == UNION {ConcWrapped(depth) : depth \in 0..MaxWrap}

InitConc ==
    /\ DefaultNodeWeight \in ConcDefaultWeights
    /\ nextHandler \in BOOLEAN
    /\ nodeWeights = EmptyMap
    /\ lastCall = NoCall
    /\ nextCalls = <<>>
    /\ got = NoGot
    /\ mu = "free"
    /\ stack = <<>>
    /\ readers = [r \in Readers |-> IdleReader]
    /\ crashed = FALSE
    /\ refMap = EmptyMap
    /\ lbResult = NoResult

Top == stack[Len(stack)]

SetPc(pc) == stack' = [stack EXCEPT ![Len(stack)].pc = pc]

\* the event source calls a handler: the previous call has returned
Call(op, args) ==
    /\ ~crashed
    /\ stack = <<>>
    /\ stack' = <<[op |-> op, args |-> args, pc |-> "switch"]>>
    /\ lastCall' = [op |-> op, args |-> args]
    /\ nextCalls' = <<>>
    /\ UNCHANGED <<otherVars, DefaultNodeWeight, nextHandler, nodeWeights, got, mu, readers, crashed>>

CallOnAdd == \E obj \in ConcObjects : Call("OnAdd", <<obj>>)

CallOnUpdate ==
    \E oldObj \in ConcOldObjects, newObj \in ConcObjects :
        Call("OnUpdate", <<oldObj, newObj>>)

CallOnDelete == \E obj \in ConcDeleteObjects : Call("OnDelete", <<obj>>)

\* the payload a frame switches on
FrameObj(f) == f.args[Len(f.args)]

\* the table is written by this frame's handler for this payload
WritesTable(f) ==
    /\ FrameObj(f).kind = "Node"
    /\ f.op = "OnUpdate" => ~cmpEqualIgnoreStatus(f.args[1], f.args[2])

\* forwards a node event before the table is written
TypeSwitch_ForwardFirst ==
    /\ ~crashed
    /\ stack # <<>>
    /\ Top.pc = "switch"
    /\ IF WritesTable(Top)
       THEN /\ SetPc("lock")
            /\ nextCalls' = Forward([nodeWeights |-> nodeWeights,
                                     calls |-> nextCalls], Top.op, Top.args).calls
       ELSE /\ nextCalls' = nextCalls
            /\ IF Top.op = "OnDelete" /\ FrameObj(Top).kind = "DeletedFinalStateUnknown"
               THEN stack' = Append([stack EXCEPT ![Len(stack)].pc = "forward"],
                                    [op |-> "OnDelete", args |-> <<FrameObj(Top).Obj>>,
                                     pc |-> "switch"])
               ELSE SetPc("forward")
    /\ UNCHANGED <<otherVars, DefaultNodeWeight, nextHandler, nodeWeights,
                   lastCall, got, mu, readers, crashed>>

\* switch obj := obj.(type): to updateNodeWeight or deleteNodeWeight, to
\* the recursive c.OnDelete(obj.Obj), or past the switch
TypeSwitch ==
    /\ ~crashed
    /\ stack # <<>>
    /\ Top.pc = "switch"
    /\ IF WritesTable(Top) THEN SetPc("lock")
       ELSE IF Top.op = "OnDelete" /\ FrameObj(Top).kind = "DeletedFinalStateUnknown"
       THEN stack' = Append([stack EXCEPT ![Len(stack)].pc = "forward"],
                            [op |-> "OnDelete", args |-> <<FrameObj(Top).Obj>>,
                             pc |-> "switch"])
       ELSE SetPc("forward")
    /\ UNCHANGED <<otherVars, cacheVars, mu, readers, crashed>>

\* c.mu.Lock()
MuLock ==
    /\ ~crashed
    /\ stack # <<>>
    /\ Top.pc = "lock"
    /\ mu = "free"
    /\ mu' = "event"
    /\ SetPc("critical")
    /\ UNCHANGED <<otherVars, cacheVars, readers, crashed>>

\* a write of the map while a reader is inside its unlocked read
RaceWith(written) ==
    readers' = [r \in Readers |->
                   IF readers[r].pc = "read" /\ written
                   THEN [readers[r] EXCEPT !.raced = TRUE]
                   ELSE readers[r]]

\* returns from updateNodeWeight or deleteNodeWeight with the mutex held
Critical_NoUnlock ==
    /\ ~crashed
    /\ stack # <<>>
    /\ Top.pc = "critical"
    /\ LET c == IF Top.op = "OnDelete"
                THEN deleteNodeWeight(Cache, FrameObj(Top))
                ELSE updateNodeWeight(Cache, FrameObj(Top))
       IN  /\ nodeWeights' = c.nodeWeights
           /\ RaceWith(Top.op = "OnDelete" \/ c.nodeWeights # nodeWeights)
    /\ SetPc("forward")
    /\ UNCHANGED <<otherVars, DefaultNodeWeight, nextHandler, lastCall, nextCalls,
                   got, mu, crashed>>

\* the body of updateNodeWeight or deleteNodeWeight, under the mutex
Critical ==
    /\ ~crashed
    /\ stack # <<>>
    /\ Top.pc = "critical"
    /\ LET c == IF Top.op = "OnDelete"
                THEN deleteNodeWeight(Cache, FrameObj(Top))
                ELSE updateNodeWeight(Cache, FrameObj(Top))
       IN  /\ nodeWeights' = c.nodeWeights
           /\ RaceWith(Top.op = "OnDelete" \/ c.nodeWeights # nodeWeights)
    /\ SetPc("unlock")
    /\ UNCHANGED <<otherVars, DefaultNodeWeight, nextHandler, lastCall, nextCalls, got, mu, crashed>>

\* defer c.mu.Unlock()
MuUnlock ==
    /\ ~crashed
    /\ stack # <<>>
    /\ Top.pc = "unlock"
    /\ mu' = "free"
    /\ SetPc("forward")
    /\ UNCHANGED <<otherVars, cacheVars, readers, crashed>>

\* if c.Next != nil { c.Next.<op>(...) }, then the handler returns
ForwardNext ==
    /\ ~crashed
    /\ stack # <<>>
    /\ Top.pc = "forward"
    /\ nextCalls' = Forward([nodeWeights |-> nodeWeights, calls |-> nextCalls],
                            Top.op, Top.args).calls
    /\ stack' = SubSeq(stack, 1, Len(stack) - 1)
    /\ UNCHANGED <<otherVars, DefaultNodeWeight, nextHandler, nodeWeights, lastCall, got,
                   mu, readers, crashed>>

\* GetWeightOfNode(nodeName) is entered
GetCall(r) ==
    /\ ~crashed
    /\ readers[r].pc = "idle"
    /\ \E nodeName \in NodeNames :
         readers' = [readers EXCEPT ![r] =
                        [pc |-> "read", nodeName |-> nodeName,
                         old |-> GetWeightOfNode(Cache, nodeName),
                         raced |-> FALSE, fatal |-> FALSE, ret |-> 0]]
    /\ UNCHANGED <<otherVars, cacheVars, mu, stack, crashed>>

\* c.nodeWeights[nodeName], without the mutex: a read that a write
\* overlapped yields the value before the write or the value after it, or
\* the runtime's "fatal error: concurrent map read and map write"
GetRead(r) ==
    /\ ~crashed
    /\ readers[r].pc = "read"
    /\ \/ /\ \E w \in {GetWeightOfNode(Cache, readers[r].nodeName)}
                        \cup (IF readers[r].raced THEN {readers[r].old} ELSE {}) :
               readers' = [readers EXCEPT ![r].pc = "return", ![r].ret = w]
          /\ UNCHANGED crashed
       \/ /\ readers[r].raced
          /\ readers' = [readers EXCEPT ![r].pc = "return", ![r].fatal = TRUE]
          /\ crashed' = TRUE
    /\ UNCHANGED <<otherVars, cacheVars, mu, stack>>

\* GetWeightOfNode returns
GetReturn(r) ==
    /\ ~crashed
    /\ readers[r].pc = "return"
    /\ readers' = [readers EXCEPT ![r] = IdleReader]
    /\ UNCHANGED <<otherVars, cacheVars, mu, stack, crashed>>

NextConc ==
    \/ CallOnAdd
    \/ CallOnUpdate
    \/ CallOnDelete
    \/ TypeSwitch
    \/ MuLock
    \/ Critical
    \/ MuUnlock
    \/ ForwardNext
    \/ \E r \in Readers : GetCall(r)
    \/ \E r \in Readers : GetRead(r)
    \/ \E r \in Readers : GetReturn(r)

SpecConc == InitConc /\ [][NextConc]_vars

\* the steps of the event goroutine inside a handler
EventStep ==
    \/ TypeSwitch
    \/ MuLock
    \/ Critical
    \/ MuUnlock
    \/ ForwardNext

\* the steps of goroutine r inside GetWeightOfNode
ReaderStep(r) == GetRead(r) \/ GetReturn(r)

\* the Go scheduler runs every runnable goroutine eventually
SpecConcFair ==
    /\ SpecConc
    /\ WF_vars(EventStep)
    /\ \A r \in Readers : WF_vars(ReaderStep(r))

\* what a downstream handler delivers back to the cache it was called by
CallbackCalls ==
    {[op |-> "OnAdd",
      args |-> <<Node("node2", NodeWeightAnnotation :> <<"1", "2", "8">>, "Ready")>>],
     [op |-> "OnDelete",
      args |-> <<Node("node1", NodeWeightAnnotation :> <<"5">>, "Ready")>>]}

\* frames standing inside c.Next's method
Reentries == Cardinality({i \in 1..Len(stack) : stack[i].pc = "inNext"})

\* c.Next.<op>(...) is called and, before returning, calls a handler of
\* this cache on the same goroutine
NextCallsBack ==
    /\ ~crashed
    /\ stack # <<>>
    /\ Top.pc = "forward"
    /\ nextHandler
    /\ Reentries < MaxReentry
    /\ nextCalls' = Append(nextCalls, [op |-> Top.op, args |-> Top.args])
    /\ \E call \in CallbackCalls :
         stack' = Append([stack EXCEPT ![Len(stack)].pc = "inNext"],
                         [op |-> call.op, args |-> call.args, pc |-> "switch"])
    /\ UNCHANGED <<otherVars, DefaultNodeWeight, nextHandler, nodeWeights,
                   lastCall, got, mu, readers, crashed>>

\* c.Next's method returns, and then the handler that called it
NextReturns ==
    /\ ~crashed
    /\ stack # <<>>
    /\ Top.pc = "inNext"
    /\ stack' = SubSeq(stack, 1, Len(stack) - 1)
    /\ UNCHANGED <<otherVars, cacheVars, mu, readers, crashed>>

NextReentrant ==
    \/ NextConc
    \/ NextCallsBack
    \/ NextReturns

SpecReentrant == InitConc /\ [][NextReentrant]_vars

-----------------------------------------------------------------------------
(* The endpoint builders (package v3, endpoint.go). A *wrapperspb.UInt32   *)
(* is [set, Value]; set is FALSE for nil.                                   *)

NoWeight == 0

NilUInt32 == [set |-> FALSE, Value |-> 0]

UInt32(v) == [set |-> TRUE, Value |-> v]

UInt32OrNil(v) == IF v = 0 THEN NilUInt32 ELSE UInt32(v)

WeightedLBEndpoint(weight, addr) ==
    [HostIdentifier |-> [Endpoint |-> [Address |-> addr]],
     LoadBalancingWeight |-> IF weight > 0 THEN UInt32(weight) ELSE NilUInt32]

LBEndpoint(addr) == WeightedLBEndpoint(NoWeight, addr)

WeightedEndpoints(weight, addrs) ==
    <<[LbEndpoints |-> [i \in 1..Len(addrs) |-> LBEndpoint(addrs[i])],
       LoadBalancingWeight |-> UInt32OrNil(weight)]>>

\* func Endpoints(addrs ...)
EndpointsOf(addrs) == WeightedEndpoints(0, addrs)

Addresses == {"10.0.0.1", "10.0.0.2", "10.0.0.3"}

AddressLists == UNION {[1..k -> Addresses] : k \in 0..MaxAddrs}

EndpointWeights == {0, 1, 128, 200}

CallBuilder(fn, weight, addrs, result) ==
    /\ lbResult' = [fn |-> fn, weight |-> weight, addrs |-> addrs,
                    result |-> result]
    /\ UNCHANGED <<cacheVars, threadVars, refMap>>

CallWeightedEndpoints ==
    \E weight \in EndpointWeights, addrs \in AddressLists :
        CallBuilder("WeightedEndpoints", weight, addrs,
                    WeightedEndpoints(weight, addrs))

CallEndpoints ==
    \E addrs \in AddressLists :
        CallBuilder("Endpoints", NoWeight, addrs, EndpointsOf(addrs))

NextEndpoint ==
    \/ CallWeightedEndpoints
    \/ CallEndpoints

SpecEndpoint == InitConc /\ [][NextEndpoint]_vars

----------------------------------------------------------------------------
(* Properties *)

\* the payload of the last call (the new object of an update)
CallObj == lastCall.args[Len(lastCall.args)]

CallIs(op) == lastCall.op = op

RECURSIVE Innermost(_)
Innermost(obj) ==
    IF obj.kind = "DeletedFinalStateUnknown" THEN Innermost(obj.Obj) ELSE obj

HasKey(obj) == NodeWeightAnnotation \in DOMAIN obj.ObjectMeta.Annotations

Parsed(obj) == ParseUint(obj.ObjectMeta.Annotations[NodeWeightAnnotation])

\* the annotation of obj parses as an integer in [0, 128]
InRange(obj) == HasKey(obj) /\ Parsed(obj).err = "nil" /\ Parsed(obj).n <= MaxWeight

\* GetWeightOfNode was called for the node the last call names
GotFor(obj) == got.called /\ got.nodeName = obj.ObjectMeta.Name

\* C1: with a downstream handler configured, every call of OnAdd, OnUpdate
\* or OnDelete, whatever its payload, makes exactly one call of the same
\* kind on the downstream handler, with the call's own arguments.
C1_ExactlyOneForward ==
    (nextHandler /\ lastCall # NoCall) => nextCalls = <<lastCall>>

\* C2 (as claimed): GetWeightOfNode(n) right after OnAdd of a node named n
\* whose annotation parses as v in [0, 128] returns v, v = 0 included.
C2_Original ==
    (CallIs("OnAdd") /\ CallObj.kind = "Node" /\ InRange(CallObj) /\ GotFor(CallObj))
        => got.weight = Parsed(CallObj).n

\* C2 (amended): GetWeightOfNode(n) right after OnAdd of a node named n
\* whose annotation parses as v returns v when 1 <= v <= 128 and the
\* configured default weight when v = 0.
C2_AddInRange ==
    (CallIs("OnAdd") /\ CallObj.kind = "Node" /\ InRange(CallObj) /\ GotFor(CallObj))
        => got.weight = IF Parsed(CallObj).n = 0 THEN DefaultNodeWeight
                        ELSE Parsed(CallObj).n

C2_Witness ==
    /\ CallIs("OnAdd") /\ CallObj.kind = "Node" /\ InRange(CallObj) /\ GotFor(CallObj)
    /\ Parsed(CallObj).n = MaxWeight
    /\ got.weight = MaxWeight
    /\ DefaultNodeWeight # MaxWeight

\* C3: GetWeightOfNode(n) right after OnAdd of a node named n whose
\* annotation is absent, does not parse as a non-negative 32-bit integer, or
\* parses above 128, returns the configured default weight, whatever was
\* stored for n before.
C3_AddFallsBack ==
    (CallIs("OnAdd") /\ CallObj.kind = "Node" /\ ~InRange(CallObj) /\ GotFor(CallObj))
        => got.weight = DefaultNodeWeight

C3_Witness ==
    /\ CallIs("OnAdd") /\ CallObj.kind = "Node" /\ GotFor(CallObj)
    /\ HasKey(CallObj) /\ Parsed(CallObj).err = "nil" /\ Parsed(CallObj).n > MaxWeight
    /\ got.weight = DefaultNodeWeight
    /\ DefaultNodeWeight = 1

\* the event goroutine is inside the critical section of updateNodeWeight
\* or deleteNodeWeight
InCriticalSection == stack # <<>> /\ Top.pc \in {"critical", "unlock"}

\* C4: every access to the weight table is made under the mutex, the read
\* of GetWeightOfNode included: GetWeightOfNode never reads the table while
\* updateNodeWeight or deleteNodeWeight is inside its critical section.
C4_ReadsExcludeWriters ==
    \A r \in Readers :
        readers[r].pc = "read" => ~InCriticalSection

\* C5: GetWeightOfNode(name) returns the stored value when an entry is
\* present and non-zero, and the configured default weight when there is no
\* entry or the stored value is 0; so a node added with annotation "0" reads
\* like a node never seen.
C5_GetWeightOfNode ==
    /\ got.called =>
         got.weight = IF got.nodeName \in DOMAIN nodeWeights
                         /\ nodeWeights[got.nodeName] # 0
                      THEN nodeWeights[got.nodeName]
                      ELSE DefaultNodeWeight
    /\ (CallIs("OnAdd") /\ CallObj.kind = "Node" /\ InRange(CallObj)
            /\ Parsed(CallObj).n = 0 /\ GotFor(CallObj))
         => got.weight = DefaultNodeWeight

C5_Witness ==
    /\ got.called
    /\ got.nodeName \in DOMAIN nodeWeights
    /\ nodeWeights[got.nodeName] = 0
    /\ DefaultNodeWeight # 0
    /\ got.weight = DefaultNodeWeight

\* C6: after OnDelete of a node named n the table holds no entry for n and
\* GetWeightOfNode(n) returns the configured default weight; an absent entry
\* stays absent (and reads as the default) until an OnAdd or OnUpdate whose
\* node is named n writes it.
C6_DeleteRemoves ==
    /\ []((CallIs("OnDelete") /\ CallObj.kind = "Node")
            => /\ CallObj.ObjectMeta.Name \notin DOMAIN nodeWeights
               /\ GotFor(CallObj) => got.weight = DefaultNodeWeight)
    /\ []((got.called /\ got.nodeName \notin DOMAIN nodeWeights)
            => got.weight = DefaultNodeWeight)
    /\ [][\A n \in NodeNames :
            (n \notin DOMAIN nodeWeights /\ n \in DOMAIN nodeWeights')
                => /\ lastCall'.op \in {"OnAdd", "OnUpdate"}
                   /\ lastCall'.args[Len(lastCall'.args)].kind = "Node"
                   /\ lastCall'.args[Len(lastCall'.args)].ObjectMeta.Name = n]_vars

C6_Witness ==
    /\ CallIs("OnDelete") /\ CallObj.kind = "Node" /\ GotFor(CallObj)
    /\ got.weight = DefaultNodeWeight
    /\ DOMAIN nodeWeights = NodeNames \ {CallObj.ObjectMeta.Name}

\* C7: OnDelete of a final-state-unknown wrapper, nested to any depth,
\* around a node named n leaves the table as a direct OnDelete of that node
\* would: the entry of n removed, every other entry unchanged.
C7_TombstoneDelete ==
    [][(lastCall'.op = "OnDelete"
          /\ lastCall'.args[1].kind = "DeletedFinalStateUnknown"
          /\ Innermost(lastCall'.args[1]).kind = "Node")
        => LET n == Innermost(lastCall'.args[1]).ObjectMeta.Name IN
           /\ DOMAIN nodeWeights' = DOMAIN nodeWeights \ {n}
           /\ \A m \in DOMAIN nodeWeights' : nodeWeights'[m] = nodeWeights[m]
           /\ nodeWeights' = OnDelete(Cache, Innermost(lastCall'.args[1])).nodeWeights]_vars

C7_Witness ==
    /\ CallIs("OnDelete")
    /\ CallObj.kind = "DeletedFinalStateUnknown"
    /\ CallObj.Obj.kind = "DeletedFinalStateUnknown"
    /\ Innermost(CallObj).kind = "Node"
    /\ DOMAIN nodeWeights = NodeNames \ {Innermost(CallObj).ObjectMeta.Name}

\* C8: OnUpdate(old, new) of two nodes equal once Status is ignored leaves
\* the whole table unchanged, whether or not it holds an entry for the node.
C8_UpdateNoChange ==
    [][(lastCall'.op = "OnUpdate"
          /\ lastCall'.args[1].kind = "Node" /\ lastCall'.args[2].kind = "Node"
          /\ lastCall'.args[1].ObjectMeta = lastCall'.args[2].ObjectMeta)
        => nodeWeights' = nodeWeights]_vars

C8_Witness ==
    /\ CallIs("OnUpdate")
    /\ lastCall.args[1].kind = "Node" /\ lastCall.args[2].kind = "Node"
    /\ lastCall.args[1].ObjectMeta = lastCall.args[2].ObjectMeta
    /\ lastCall.args[1].Status # lastCall.args[2].Status
    /\ InRange(CallObj) /\ Parsed(CallObj).n = 5
    /\ CallObj.ObjectMeta.Name \notin DOMAIN nodeWeights

\* old differs from new under the status-ignoring comparison
Differs(oldObj, newObj) ==
    oldObj.kind # newObj.kind \/ oldObj.ObjectMeta # newObj.ObjectMeta

\* the weight the annotation of obj stands for: its value when it parses
\* into [0, 128], else the default
Resolved(obj) == IF InRange(obj) THEN Parsed(obj).n ELSE DefaultNodeWeight

\* C9 (as claimed): after OnUpdate(old, new), new a node named n and old
\* different from new (another annotation value, or another type),
\* GetWeightOfNode(n) returns the weight resolved from new.
C9_Original ==
    (CallIs("OnUpdate") /\ CallObj.kind = "Node"
        /\ Differs(lastCall.args[1], CallObj) /\ GotFor(CallObj))
        => got.weight = Resolved(CallObj)

\* C9 (amended): ... GetWeightOfNode(n) returns the weight resolved from
\* new when that weight is not 0, and the configured default weight when it
\* is 0.
C9_UpdateOverwrites ==
    (CallIs("OnUpdate") /\ CallObj.kind = "Node"
        /\ Differs(lastCall.args[1], CallObj) /\ GotFor(CallObj))
        => got.weight = IF Resolved(CallObj) = 0 THEN DefaultNodeWeight
                        ELSE Resolved(CallObj)

C9_Witness ==
    /\ CallIs("OnUpdate") /\ CallObj.kind = "Node" /\ GotFor(CallObj)
    /\ lastCall.args[1].kind = "Node"
    /\ lastCall.args[1].ObjectMeta.Name = CallObj.ObjectMeta.Name
    /\ lastCall.args[1].ObjectMeta.Annotations # CallObj.ObjectMeta.Annotations
    /\ InRange(CallObj) /\ Parsed(CallObj).n = 5
    /\ got.weight = 5

\* C10 (as claimed): OnUpdate(old, new) with old and new of different types
\* leaves the table untouched and still forwards (old, new).
C10_Original ==
    [][(lastCall'.op = "OnUpdate"
          /\ lastCall'.args[1].kind # lastCall'.args[2].kind)
        => /\ nodeWeights' = nodeWeights
           /\ nextHandler => nextCalls' = <<lastCall'>>]_vars

\* C10 (amended): OnUpdate(old, new) with old and new of different types
\* leaves the table untouched only when new is not a node; when new is a
\* node named n (and old is not one) the weight resolved from new is
\* stored for n as on any changed update and every other entry is left
\* alone; in both cases (old, new) is forwarded.
C10_TypeMismatch ==
    [][(lastCall'.op = "OnUpdate"
          /\ lastCall'.args[1].kind # lastCall'.args[2].kind)
        => LET new == lastCall'.args[2] IN
           /\ new.kind # "Node" => nodeWeights' = nodeWeights
           /\ new.kind = "Node" =>
                /\ MapGet(nodeWeights', new.ObjectMeta.Name)
                     = (IF InRange(new) THEN Parsed(new).n ELSE DefaultNodeWeight)
                /\ \A m \in NodeNames \ {new.ObjectMeta.Name} :
                     /\ m \in DOMAIN nodeWeights' <=> m \in DOMAIN nodeWeights
                     /\ MapGet(nodeWeights', m) = MapGet(nodeWeights, m)
           /\ nextHandler => nextCalls' = <<lastCall'>>]_vars

C10_Witness ==
    /\ CallIs("OnUpdate")
    /\ lastCall.args[1].kind = "Endpoints" /\ CallObj.kind = "Node"
    /\ InRange(CallObj) /\ Parsed(CallObj).n = 5
    /\ MapGet(nodeWeights, CallObj.ObjectMeta.Name) = 5
    /\ nextHandler /\ nextCalls = <<lastCall>>

\* the payload is neither a node nor a final-state-unknown wrapper
Unrecognized(obj) == obj.kind \notin {"Node", "DeletedFinalStateUnknown"}

\* C11: OnAdd, OnUpdate (by its new payload) or OnDelete of a payload that
\* is neither a node nor a final-state-unknown wrapper leaves the table
\* unchanged, even when the payload carries the name and annotation of a
\* cached node, completes, and still forwards the event downstream.
C11_UnrecognizedPayload ==
    [][(lastCall' # NoCall /\ lastCall # lastCall'
          /\ Unrecognized(lastCall'.args[Len(lastCall'.args)]))
        => /\ nodeWeights' = nodeWeights
           /\ nextHandler => nextCalls' = <<lastCall'>>]_vars

C11_Witness ==
    /\ CallIs("OnAdd") /\ CallObj.kind = "Endpoints"
    /\ HasKey(CallObj) /\ Parsed(CallObj).n = 5
    /\ CallObj.ObjectMeta.Name \in DOMAIN nodeWeights
    /\ nodeWeights[CallObj.ObjectMeta.Name] = 128
    /\ nextHandler /\ nextCalls = <<lastCall>>

\* C12: add is idempotent: from any reachable table, delivering an OnAdd
\* again to the table its first delivery produced leaves that table as it is.
C12_AddIdempotent ==
    [][(lastCall'.op = "OnAdd" /\ lastCall # lastCall')
        => OnAdd([nodeWeights |-> nodeWeights', calls |-> <<>>],
                 lastCall'.args[1]).nodeWeights = nodeWeights']_vars

C12_Witness ==
    /\ CallIs("OnAdd") /\ CallObj.kind = "Node"
    /\ InRange(CallObj) /\ Parsed(CallObj).n = 5
    /\ MapGet(nodeWeights, CallObj.ObjectMeta.Name) = 5
    /\ OnAdd(Cache, CallObj).nodeWeights = nodeWeights

\* C13: for every configured default weight, every value stored in the
\* weight table is in [0, 128].
C13_StoredInRange ==
    \A n \in DOMAIN nodeWeights : 0 <= nodeWeights[n] /\ nodeWeights[n] <= MaxWeight

\* C16 (as claimed): after OnAdd of a node named n the table holds an entry
\* for n with the weight resolved from the node, for every resolved weight
\* (0 included) and whether or not an entry existed; the first
\* table-changing OnUpdate for a never-seen n creates its entry.
C16_Original ==
    (CallIs("OnAdd") /\ CallObj.kind = "Node")
        => /\ CallObj.ObjectMeta.Name \in DOMAIN nodeWeights
           /\ nodeWeights[CallObj.ObjectMeta.Name] = Resolved(CallObj)

\* C16 (amended): after OnAdd of a node named n the table reads the weight
\* resolved from the node for n; it holds an entry for n with that weight
\* whenever the weight is not 0 or an entry existed before the call, and an
\* entry present before is never removed; when the weight is 0 and no entry
\* existed, none is created. A table-changing OnUpdate for a never-seen n
\* creates its entry, with the weight resolved from the new node.
C16_AddWrites ==
    /\ []((CallIs("OnAdd") /\ CallObj.kind = "Node")
            => /\ MapGet(nodeWeights, CallObj.ObjectMeta.Name) = Resolved(CallObj)
               /\ Resolved(CallObj) # 0
                    => CallObj.ObjectMeta.Name \in DOMAIN nodeWeights)
    /\ [][(lastCall'.op = "OnAdd" /\ lastCall # lastCall'
             /\ lastCall'.args[1].kind = "Node")
           => LET n == lastCall'.args[1].ObjectMeta.Name IN
              /\ n \in DOMAIN nodeWeights => n \in DOMAIN nodeWeights'
              /\ (n \notin DOMAIN nodeWeights /\ Resolved(lastCall'.args[1]) = 0)
                    => n \notin DOMAIN nodeWeights']_vars
    /\ [][(lastCall'.op = "OnUpdate" /\ lastCall # lastCall'
             /\ nodeWeights' # nodeWeights)
           => LET new == lastCall'.args[2] IN
              /\ new.kind = "Node"
              /\ new.ObjectMeta.Name \in DOMAIN nodeWeights'
              /\ nodeWeights'[new.ObjectMeta.Name] = Resolved(new)]_vars

C16_Witness ==
    /\ CallIs("OnAdd") /\ CallObj.kind = "Node"
    /\ InRange(CallObj) /\ Parsed(CallObj).n = 0
    /\ CallObj.ObjectMeta.Name \in DOMAIN nodeWeights
    /\ nodeWeights[CallObj.ObjectMeta.Name] = 0
    /\ DefaultNodeWeight # 0

\* the node an event names: the payload, or the object under its wrappers
EventNode(call) == Innermost(call.args[Len(call.args)])

\* C20: an event changes only the entry of the node it names: the presence
\* and the value of every other name's entry are as before the call; and
\* GetWeightOfNode never changes the table.
C20_OnlyNamedEntry ==
    [][/\ (lastCall' # NoCall /\ lastCall # lastCall')
            => \A m \in NodeNames \ {EventNode(lastCall').ObjectMeta.Name} :
                  /\ m \in DOMAIN nodeWeights' <=> m \in DOMAIN nodeWeights
                  /\ MapGet(nodeWeights', m) = MapGet(nodeWeights, m)
       /\ (got'.called /\ got' # got) => nodeWeights' = nodeWeights]_vars

C20_Witness ==
    /\ CallIs("OnDelete") /\ CallObj.kind = "DeletedFinalStateUnknown"
    /\ EventNode(lastCall).kind = "Node"
    /\ EventNode(lastCall).ObjectMeta.Name = "node1"
    /\ "node1" \notin DOMAIN nodeWeights
    /\ "node2" \in DOMAIN nodeWeights /\ nodeWeights["node2"] = 5
    /\ got.called /\ got.nodeName = "node2" /\ got.weight = 5

\* C14: WeightedEndpoints(weight, addrs...) returns a slice of exactly one
\* locality entry holding one LbEndpoint per address, in the order given;
\* when weight is not 0 every LbEndpoint has LoadBalancingWeight set to
\* weight, and when weight is 0 none has it set.
C14_WeightedEndpoints ==
    lbResult.fn = "WeightedEndpoints"
        => /\ Len(lbResult.result) = 1
           /\ LET eps == lbResult.result[1].LbEndpoints IN
              /\ Len(eps) = Len(lbResult.addrs)
              /\ \A i \in 1..Len(eps) :
                    /\ eps[i].HostIdentifier.Endpoint.Address = lbResult.addrs[i]
                    /\ eps[i].LoadBalancingWeight =
                          IF lbResult.weight # 0
                          THEN [set |-> TRUE, Value |-> lbResult.weight]
                          ELSE [set |-> FALSE, Value |-> 0]

\* C17: after any sequence of events delivered one at a time, with or
\* without a downstream handler, GetWeightOfNode(n) equals for every n the
\* lookup of the reference model (unconditional upsert on add and on
\* non-equivalent update, removal on delete, default on absent or zero):
\* never a stale weight.
C17_RefinesReference ==
    /\ \A n \in NodeNames : GetWeightOfNode(Cache, n) = RefLookup(refMap, n)
    /\ got.called => got.weight = RefLookup(refMap, got.nodeName)

C17_Witness ==
    /\ "node1" \in DOMAIN refMap /\ refMap["node1"] = 0
    /\ "node1" \notin DOMAIN nodeWeights
    /\ "node2" \in DOMAIN refMap /\ refMap["node2"] = 128
    /\ CallIs("OnUpdate") /\ CallObj.ObjectMeta.Name = "node2"
    /\ got.called /\ got.nodeName = "node2" /\ got.weight = 128
    /\ DefaultNodeWeight = 1

\* the table shows the effect of a forwarded call
Reflects(call) ==
    LET obj == call.args[Len(call.args)]
        node == Innermost(obj)
    IN  CASE call.op = "OnAdd" /\ obj.kind = "Node" ->
                /\ MapGet(nodeWeights, obj.ObjectMeta.Name) = Resolved(obj)
                /\ GetWeightOfNode(Cache, obj.ObjectMeta.Name)
                     = IF Resolved(obj) = 0 THEN DefaultNodeWeight ELSE Resolved(obj)
          [] call.op = "OnUpdate" /\ obj.kind = "Node"
               /\ ~(call.args[1].kind = "Node"
                      /\ call.args[1].ObjectMeta = obj.ObjectMeta) ->
                /\ MapGet(nodeWeights, obj.ObjectMeta.Name) = Resolved(obj)
                /\ GetWeightOfNode(Cache, obj.ObjectMeta.Name)
                     = IF Resolved(obj) = 0 THEN DefaultNodeWeight ELSE Resolved(obj)
          [] call.op = "OnDelete" /\ node.kind = "Node" ->
                /\ node.ObjectMeta.Name \notin DOMAIN nodeWeights
                /\ GetWeightOfNode(Cache, node.ObjectMeta.Name) = DefaultNodeWeight
          [] OTHER -> TRUE

\* C15: an event is forwarded only after the cache processed it: from the
\* moment the downstream handler's method is invoked the table reflects
\* the event, so a GetWeightOfNode made from inside the downstream handler
\* observes the post-event weight.
C15_ForwardAfterProcessing ==
    nextCalls # <<>> => Reflects(nextCalls[Len(nextCalls)])

C15_Witness ==
    /\ nextHandler /\ nextCalls = <<lastCall>>
    /\ CallIs("OnAdd") /\ CallObj.kind = "Node"
    /\ Parsed(CallObj).n = 5
    /\ MapGet(nodeWeights, CallObj.ObjectMeta.Name) = 5
    /\ \E r \in Readers : readers[r].pc = "return" /\ readers[r].ret = 5

\* some operation has started and not returned
Started == stack # <<>> \/ \E r \in Readers : readers[r].pc # "idle"

\* C18: no operation blocks indefinitely: under fair scheduling, with one
\* event goroutine and any number of concurrent GetWeightOfNode callers,
\* every started OnAdd, OnUpdate, OnDelete and GetWeightOfNode eventually
\* completes, and the mutex is released before the operation returns.
C18_OperationsComplete ==
    /\ (stack # <<>>) ~> (stack = <<>>)
    /\ \A r \in Readers : (readers[r].pc # "idle") ~> (readers[r].pc = "idle")
    /\ [](stack = <<>> => mu = "free")

\* C19: the mutex is held only inside updateNodeWeight and
\* deleteNodeWeight, never while the downstream handler is invoked nor
\* across the recursive OnDelete call; so a downstream handler that calls
\* back into the same cache finds the mutex free and does not deadlock.
C19_MutexOnlyInside ==
    /\ [](mu # "free" => (stack # <<>> /\ Top.pc \in {"critical", "unlock"}))
    /\ [][(Len(stack') > Len(stack) \/ Len(nextCalls') > Len(nextCalls))
            => (mu = "free" /\ mu' = "free")]_vars
    /\ []((stack # <<>> /\ ~crashed) => ENABLED (EventStep \/ NextReturns))

C19_Witness ==
    /\ Len(stack) = 3
    /\ stack[1].op = "OnDelete" /\ stack[1].pc = "forward"
    /\ stack[2].pc = "inNext"
    /\ stack[3].op = "OnAdd" /\ stack[3].pc = "critical"
    /\ mu = "event"

====
